---------------------------- MODULE Spec2Model ----------------------------
(***************************************************************************)
(* A model of the find_panic_paths plugin command (main in __init__.py):   *)
(* it registers the core::panic::Location type, scans the &str data        *)
(* variables of a binary view for source file paths, overlays a            *)
(* core::panic::Location on each of them and tags every code reference to  *)
(* such a location.                                                        *)
(*                                                                         *)
(* The binary view (bv) is the host's state.  Text is a sequence of        *)
(* one-character strings; a bytes value is a sequence of bytes, where an   *)
(* ASCII byte is written as its character and InvalidByte is a byte that   *)
(* is no valid UTF-8.  An optional value (Python's X | None) is a sequence *)
(* of length 0 (None) or 1.                                                *)
(***************************************************************************)
EXTENDS Integers, Sequences, FiniteSets, TLC

\* How many times the command is invoked on the same binary view.
MaxRuns == 2

LocationTypeName == "core::panic::Location"

None == <<>>
Some(x) == <<x>>

Range(s) == {s[i] : i \in 1..Len(s)}

(***************************************************************************)
(* The binary views the command is run on.                                 *)
(***************************************************************************)
\* bv.get_data_refs_for_type("&str"), in the host's order.
StrSliceRefs == <<4096, 4128>>

StringAddrs == {12288, 12320}

InvalidByte == "0xFF"

PathLib == <<"l","i","b","r","a","r","y","/","c","o","r","e","/",
             "s","r","c","/","p","a","n","i","c",".","r","s">>
PathUpper == <<"a",".","R","S">>
PathDotFile == <<"x","\\",".","r","s">>
PathWin == <<"C",":","\\","p","\\","b",".","r","s">>
BytesInvalid == <<"a",InvalidByte,".","r","s">>

\* DataVariable.value of the data variable a string slice points to.
NoValue == [kind |-> "none", data |-> <<>>]
BytesValue(b) == [kind |-> "bytes", data |-> b]
StrValue(t) == [kind |-> "str", data |-> t]
OtherValue == [kind |-> "other", data |-> <<>>]

\* bv.get_data_var_at(addr): no data variable, a &str slice, the data a
\* slice points to, or a core::panic::Location.
Absent == [kind |-> "absent", address |-> None, value |-> NoValue, name |-> <<>>]
StrSlice(a, n) == [kind |-> "strslice", address |-> a, value |-> NoValue, name |-> n]
StringData(v) == [kind |-> "data", address |-> None, value |-> v, name |-> <<>>]

NameAt(ref) == IF ref = StrSliceRefs[1] THEN <<"data_1000">> ELSE <<"data_1020">>

\* The uint32 fields that follow the &str at a slice's address.
LineAt(addr) == IF addr = StrSliceRefs[1] THEN 42 ELSE 1305
ColAt(addr) == IF addr = StrSliceRefs[1] THEN 9 ELSE 17

FirstValues ==
  {NoValue, BytesValue(PathLib), BytesValue(PathUpper), BytesValue(PathDotFile),
   BytesValue(PathWin), BytesValue(BytesInvalid), StrValue(PathLib), OtherValue}
SecondValues ==
  {BytesValue(PathLib), BytesValue(BytesInvalid), StrValue(PathLib), OtherValue}

VARIABLES
  arch,               \* bv.arch is not None
  windows,            \* "windows" in bv.platform.name
  type_registry,      \* the names bv.get_type_by_name finds
  data_vars,          \* bv.get_data_var_at
  define_ok,          \* whether bv.define_user_data_var succeeds at an address
  code_refs,          \* bv.get_code_refs
  tag_types,          \* the tag types of the view, in creation order
  tags,               \* the tags of the view, in creation order
  txn,                \* the undo actions of this invocation
  reanalysed,         \* bv.update_analysis was called in this invocation
  pc,                 \* the statement of main that runs next
  error,              \* the exception that left main, or "none"
  scan_i,             \* loop index of line 98
  candidate_path,     \* the local of that name (lines 108-115), unbound at first
  source_file_paths,  \* line 96 / 182
  synth_i,            \* loop index of line 127
  panic_locations,    \* line 124 / 183
  ann_i,              \* loop index of line 144
  define_type_calls,  \* bv.define_user_type calls so far
  define_calls,       \* bv.define_user_data_var calls of this invocation
  runs,               \* invocations started
  pre                 \* the view as it was when this invocation started

host == <<arch, windows, type_registry, data_vars, define_ok, code_refs, tag_types, tags>>
locals == <<scan_i, candidate_path, source_file_paths, synth_i, panic_locations, ann_i>>
vars == <<host, txn, reanalysed, pc, error, locals, define_type_calls, define_calls, runs, pre>>

Snapshot(reg, dv, tt, tg) ==
  [type_registry |-> reg, data_vars |-> dv, tag_types |-> tt, tags |-> tg]


(***************************************************************************)
(* bytes.decode("utf-8"), pathlib's PurePosixPath / PureWindowsPath and    *)
(* the f-strings' formatting.                                              *)
(***************************************************************************)
\* bytes.decode("utf-8"): None when it raises UnicodeDecodeError.
Utf8Decode(b) == IF InvalidByte \in Range(b) THEN None ELSE Some(b)

Letters == {"a","b","c","C","p","x"}
Separators(win) == IF win THEN {"\\", "/"} ELSE {"/"}

FirstSeparator(s, seps) ==
  IF \E i \in 1..Len(s) : s[i] \in seps
  THEN CHOOSE i \in 1..Len(s) : s[i] \in seps /\ \A j \in 1..(i - 1) : s[j] \notin seps
  ELSE 0

RECURSIVE SplitParts(_, _)
SplitParts(s, seps) ==
  IF s = <<>> THEN <<>>
  ELSE LET k == FirstSeparator(s, seps) IN
       IF k = 0 THEN <<s>>
       ELSE <<SubSeq(s, 1, k - 1)>> \o SplitParts(SubSeq(s, k + 1, Len(s)), seps)

\* A drive letter is split off a Windows path before its parts.
StripDrive(win, s) ==
  IF win /\ Len(s) >= 2 /\ s[1] \in Letters /\ s[2] = ":"
  THEN SubSeq(s, 3, Len(s)) ELSE s

IsPart(part) == part # <<>> /\ part # <<".">>

\* PurePosixPath(text) / PureWindowsPath(text): the parts after the anchor.
ParsePath(win, text) == SelectSeq(SplitParts(StripDrive(win, text), Separators(win)), IsPart)

\* PurePath.name
PathName(path) == IF path = <<>> THEN <<>> ELSE path[Len(path)]

LastDot(name) ==
  IF \E i \in 1..Len(name) : name[i] = "."
  THEN CHOOSE i \in 1..Len(name) : name[i] = "." /\ \A j \in (i + 1)..Len(name) : name[j] # "."
  ELSE 0

\* PurePath.suffix
PathSuffix(path) ==
  LET name == PathName(path)
      i == LastDot(name) IN
  IF 1 < i /\ i < Len(name) THEN SubSeq(name, i, Len(name)) ELSE <<>>

IsSourceFilePath(path) == PathSuffix(path) = <<".","r","s">>

DigitChar(d) == <<"0","1","2","3","4","5","6","7","8","9">>[d + 1]

RECURSIVE Digits(_)
\* str(n) of a non-negative integer
Digits(n) == IF n < 10 THEN <<DigitChar(n)>> ELSE Digits(n \div 10) \o <<DigitChar(n % 10)>>

\* f"{path} - Rust Panic Location Source File Path"
TagTypeName(path) == path \o <<" - Rust Panic Location Source File Path">>

\* f"{path}: line {line}, col {col}"
TagData(path, line, col) ==
  path \o <<": line ">> \o Digits(line) \o <<", col ">> \o Digits(col)

\* f"panic_location_{name}"
PanicLocationName(name) == <<"panic_location_">> \o name

(***************************************************************************)
(* The host's operations.                                                  *)
(***************************************************************************)
\* CorePanicLocation.check_binary_ninja_type_exists
TypeExists(reg) == LocationTypeName \in reg

\* DataVariable.value.get("_address") of the variable at a &str reference:
\* a core::panic::Location's value has the keys file, line and col only.
SliceAddress(dv) == IF dv.kind = "strslice" THEN dv.address ELSE None

\* DataVariable.value["file"]["_address"] of a core::panic::Location.
FileAddress(dv) == dv.address

\* The variable bv.define_user_data_var leaves at a slice's address: the
\* location's file field lies over the slice.
LocationAt(dv, name) == [kind |-> "location", address |-> dv.address, value |-> NoValue, name |-> name]


(***************************************************************************)
(* The state main is entered in.                                           *)
(***************************************************************************)
\* A slice and the data it points to: the slice is missing, has no
\* _address, or points to a string address that holds (or lacks) a variable.
SliceChoices(ref, saddr, values) ==
  {<<Absent, Absent>>, <<StrSlice(None, NameAt(ref)), Absent>>,
   <<StrSlice(Some(saddr), NameAt(ref)), Absent>>}
  \cup {<<StrSlice(Some(saddr), NameAt(ref)), StringData(v)>> : v \in values}

CodeRefChoices == {<<>>, <<8192>>, <<8192, 8200>>}

\* The locals of an invocation of main before its first statement.
Entry ==
  [txn |-> "none", reanalysed |-> FALSE, pc |-> "create_type", error |-> "none",
   scan_i |-> 1, candidate_path |-> None, source_file_paths |-> <<>>, synth_i |-> 1,
   panic_locations |-> <<>>, ann_i |-> 1, define_calls |-> <<>>]

Init ==
  /\ arch \in BOOLEAN
  /\ windows \in BOOLEAN
  /\ type_registry \in {{}, {LocationTypeName}}
  /\ \E first \in SliceChoices(4096, 12288, FirstValues),
        second \in SliceChoices(4128, 12320, SecondValues) :
       data_vars = (4096 :> first[1]) @@ (12288 :> first[2])
                   @@ (4128 :> second[1]) @@ (12320 :> second[2])
  /\ define_ok \in [Range(StrSliceRefs) -> BOOLEAN]
  /\ \E refs \in CodeRefChoices : code_refs = (4096 :> refs) @@ (4128 :> <<8200>>)
  /\ tag_types = <<>>
  /\ tags = <<>>
  /\ define_type_calls = 0
  /\ runs = 1
  /\ pre = Snapshot(type_registry, data_vars, tag_types, tags)
  /\ txn = Entry.txn
  /\ reanalysed = Entry.reanalysed
  /\ pc = Entry.pc
  /\ error = Entry.error
  /\ scan_i = Entry.scan_i
  /\ candidate_path = Entry.candidate_path
  /\ source_file_paths = Entry.source_file_paths
  /\ synth_i = Entry.synth_i
  /\ panic_locations = Entry.panic_locations
  /\ ann_i = Entry.ann_i
  /\ define_calls = Entry.define_calls

Running(stage) == pc = stage /\ error = "none"

Raise(exception) ==
  /\ error' = exception
  /\ UNCHANGED pc

(***************************************************************************)
(* main, statement by statement.                                           *)
(***************************************************************************)
\* Line 178: CorePanicLocation.create_binary_ninja_type(bv).  The registry is
\* keyed by name: defining a name again replaces its type.
CreateType ==
  /\ Running("create_type")
  /\ IF arch
     THEN /\ type_registry' = type_registry \cup {LocationTypeName}
          /\ define_type_calls' = define_type_calls + 1
     ELSE UNCHANGED <<type_registry, define_type_calls>>
  /\ pc' = "begin"
  /\ UNCHANGED <<arch, windows, data_vars, define_ok, code_refs, tag_types, tags,
                 txn, reanalysed, error, locals, define_calls, runs, pre>>

\* Line 180: bv.begin_undo_actions()
BeginUndoActions ==
  /\ Running("begin")
  /\ txn' = "begun"
  /\ pc' = "scan"
  /\ UNCHANGED <<host, reanalysed, error, locals, define_type_calls, define_calls, runs, pre>>

\* What one pass of the loop of line 98 does with the data variable dv at a
\* &str reference: "skip", "raise" (with the exception), or "classified"
\* (with the path candidate_path is then bound to).
ScanOutcome(dv, vars_at, win, bound_path) ==
  IF dv.kind = "absent" \/ SliceAddress(dv) = None
  THEN [do |-> "skip", exception |-> "none", path |-> bound_path]
  ELSE LET string_data == vars_at[SliceAddress(dv)[1]]
           value == string_data.value IN
       IF string_data.kind = "absent" \/ value.kind = "none"
       THEN [do |-> "skip", exception |-> "none", path |-> bound_path]
       ELSE IF value.kind = "bytes" /\ Utf8Decode(value.data) = None
       THEN [do |-> "raise", exception |-> "UnicodeDecodeError", path |-> bound_path]
       ELSE IF value.kind = "bytes"
       THEN [do |-> "classified", exception |-> "none",
             path |-> Some(ParsePath(win, Utf8Decode(value.data)[1]))]
       ELSE IF value.kind = "str"
       THEN [do |-> "classified", exception |-> "none",
             path |-> Some(ParsePath(win, value.data))]
       ELSE IF bound_path = None
       THEN [do |-> "raise", exception |-> "UnboundLocalError", path |-> bound_path]
       ELSE [do |-> "classified", exception |-> "none", path |-> bound_path]

\* Line 117
AppendIfSourceFile(paths, path, dv) ==
  IF IsSourceFilePath(path) THEN Append(paths, dv) ELSE paths

\* Lines 98-117: one pass of the loop over bv.get_data_refs_for_type("&str")
ScanStep ==
  /\ Running("scan")
  /\ scan_i <= Len(StrSliceRefs)
  /\ LET ref == StrSliceRefs[scan_i]
         dv == data_vars[ref]
         out == ScanOutcome(dv, data_vars, windows, candidate_path) IN
     IF out.do = "raise"
     THEN /\ Raise(out.exception)
          /\ UNCHANGED locals
     ELSE /\ scan_i' = scan_i + 1
          /\ candidate_path' = out.path
          /\ source_file_paths' =
               IF out.do = "classified"
               THEN AppendIfSourceFile(source_file_paths, out.path[1],
                                       [address |-> ref, name |-> dv.name])
               ELSE source_file_paths
          /\ UNCHANGED <<synth_i, panic_locations, ann_i, pc, error>>
  /\ UNCHANGED <<host, txn, reanalysed, define_type_calls, define_calls, runs, pre>>

\* Lines 119, 182
ScanReturn ==
  /\ Running("scan")
  /\ scan_i > Len(StrSliceRefs)
  /\ pc' = "synth"
  /\ UNCHANGED <<host, txn, reanalysed, error, locals, define_type_calls, define_calls, runs, pre>>

\* A synthesizer that gives up the batch when one creation fails.
AppendOrDropAll(locations, created) ==
  IF created # None THEN Append(locations, created[1]) ELSE <<>>

\* Lines 136-137
AppendIfCreated(locations, created) ==
  IF created # None THEN Append(locations, created[1]) ELSE locations

\* Lines 77-87: CorePanicLocation.create_binary_ninja_instance; the host
\* decides whether a variable can be defined at the address.
CreateInstance(ok, location, name) ==
  IF ok THEN Some([address |-> location, name |-> name]) ELSE None

\* Lines 127-137: one pass of the loop over source_file_paths
SynthStep ==
  /\ Running("synth")
  /\ TypeExists(type_registry)
  /\ synth_i <= Len(source_file_paths)
  /\ LET source == source_file_paths[synth_i]
         name == PanicLocationName(source.name)
         created == CreateInstance(define_ok[source.address], source.address, name) IN
     /\ define_calls' = Append(define_calls,
          [address |-> source.address, name |-> name, created |-> created # None])
     /\ data_vars' =
          IF created # None
          THEN [data_vars EXCEPT ![source.address] = LocationAt(data_vars[source.address], name)]
          ELSE data_vars
     /\ panic_locations' = AppendIfCreated(panic_locations, created)
  /\ synth_i' = synth_i + 1
  /\ UNCHANGED <<arch, windows, type_registry, define_ok, code_refs, tag_types, tags,
                 txn, reanalysed, pc, error, scan_i, candidate_path, source_file_paths,
                 ann_i, define_type_calls, runs, pre>>

\* Lines 126, 139, 183
SynthReturn ==
  /\ Running("synth")
  /\ ~TypeExists(type_registry) \/ synth_i > Len(source_file_paths)
  /\ pc' = "annotate"
  /\ UNCHANGED <<host, txn, reanalysed, error, locals, define_type_calls, define_calls, runs, pre>>

\* Lines 168-173: bv.add_tag(addr, tag_type_name, data, user=True)
Tag(addr, tag_type_name, data) ==
  [addr |-> addr, tag_type_name |-> tag_type_name, data |-> data, user |-> TRUE]

\* Lines 163-173: one tag for each code reference to the location
TagsFor(location, path, refs) ==
  [i \in 1..Len(refs) |->
     Tag(refs[i], TagTypeName(path),
         TagData(path, LineAt(location.address), ColAt(location.address)))]

\* What one pass of the loop of line 144 does with a location:
\* "skip", "raise" (with the exception) or "tag" (with the decoded path).
AnnotateOutcome(location, vars_at) ==
  LET file_address == FileAddress(vars_at[location.address]) IN
  IF file_address = None
  THEN [do |-> "raise", exception |-> "TypeError", path |-> <<>>]
  ELSE LET string_data == vars_at[file_address[1]]
           value == string_data.value IN
       IF string_data.kind = "absent"
       THEN [do |-> "skip", exception |-> "none", path |-> <<>>]
       ELSE IF value.kind # "bytes"
       THEN [do |-> "raise", exception |-> "AttributeError", path |-> <<>>]
       ELSE IF Utf8Decode(value.data) = None
       THEN [do |-> "raise", exception |-> "UnicodeDecodeError", path |-> <<>>]
       ELSE [do |-> "tag", exception |-> "none", path |-> Utf8Decode(value.data)[1]]

\* Lines 144-176: one pass of the loop over panic_locations.  Line 161 calls
\* bv.create_tag_type in every pass that decodes a path; the host adds a tag
\* type at each call, whatever the names it already holds.
AnnotateStep ==
  /\ Running("annotate")
  /\ ann_i <= Len(panic_locations)
  /\ LET location == panic_locations[ann_i]
         out == AnnotateOutcome(location, data_vars) IN
     IF out.do = "raise"
     THEN /\ Raise(out.exception)
          /\ UNCHANGED <<ann_i, tag_types, tags>>
     ELSE /\ ann_i' = ann_i + 1
          /\ UNCHANGED <<pc, error>>
          /\ IF out.do = "tag"
             THEN /\ tag_types' = Append(tag_types, TagTypeName(out.path))
                  /\ tags' = tags \o TagsFor(location, out.path, code_refs[location.address])
             ELSE UNCHANGED <<tag_types, tags>>
  /\ UNCHANGED <<arch, windows, type_registry, data_vars, define_ok, code_refs,
                 txn, reanalysed, scan_i, candidate_path, source_file_paths, synth_i,
                 panic_locations, define_type_calls, define_calls, runs, pre>>

\* Line 186: find_panic_location_code_refs_and_set_tags returns
AnnotateReturn ==
  /\ Running("annotate")
  /\ ann_i > Len(panic_locations)
  /\ pc' = "commit"
  /\ UNCHANGED <<host, txn, reanalysed, error, locals, define_type_calls, define_calls, runs, pre>>

\* Line 188: bv.commit_undo_actions()
CommitUndoActions ==
  /\ Running("commit")
  /\ txn' = "committed"
  /\ pc' = "update"
  /\ UNCHANGED <<host, reanalysed, error, locals, define_type_calls, define_calls, runs, pre>>

\* Line 189: bv.update_analysis()
UpdateAnalysis ==
  /\ Running("update")
  /\ reanalysed' = TRUE
  /\ pc' = "done"
  /\ UNCHANGED <<host, txn, error, locals, define_type_calls, define_calls, runs, pre>>

Ended == pc = "done" \/ error # "none"

\* Lines 192-194: the registered command is invoked again on the same view.
\* Nothing in main undoes what an invocation that raised has done.
Invoke ==
  /\ Ended
  /\ runs < MaxRuns
  /\ runs' = runs + 1
  /\ pre' = Snapshot(type_registry, data_vars, tag_types, tags)
  /\ txn' = Entry.txn
  /\ reanalysed' = Entry.reanalysed
  /\ pc' = Entry.pc
  /\ error' = Entry.error
  /\ scan_i' = Entry.scan_i
  /\ candidate_path' = Entry.candidate_path
  /\ source_file_paths' = Entry.source_file_paths
  /\ synth_i' = Entry.synth_i
  /\ panic_locations' = Entry.panic_locations
  /\ ann_i' = Entry.ann_i
  /\ define_calls' = Entry.define_calls
  /\ UNCHANGED <<host, define_type_calls>>

Next ==
  \/ CreateType
  \/ BeginUndoActions
  \/ ScanStep
  \/ ScanReturn
  \/ SynthStep
  \/ SynthReturn
  \/ AnnotateStep
  \/ AnnotateReturn
  \/ CommitUndoActions
  \/ UpdateAnalysis
  \/ Invoke

Spec == Init /\ [][Next]_vars

(***************************************************************************)
(* find_panic_location_code_refs_and_set_tags on its own, called with any  *)
(* list of core::panic::Location variables: the file field of a location   *)
(* may point to an address that holds no data variable.                    *)
(***************************************************************************)
LocationChoices ==
  {LocationAt(StrSlice(Some(a), <<>>), <<>>) : a \in StringAddrs}

StringChoices(values) == {Absent} \cup {StringData(v) : v \in values}

Handle(ref) == [address |-> ref, name |-> PanicLocationName(NameAt(ref))]

LocationLists ==
  {<<>>, <<Handle(4096)>>, <<Handle(4128)>>,
   <<Handle(4096), Handle(4128)>>, <<Handle(4128), Handle(4096)>>}

InitAnnotate ==
  /\ arch = TRUE
  /\ windows = FALSE
  /\ type_registry = {LocationTypeName}
  /\ \E first \in LocationChoices, second \in LocationChoices,
        s1 \in StringChoices(FirstValues), s2 \in StringChoices(SecondValues) :
       data_vars = (4096 :> first) @@ (4128 :> second) @@ (12288 :> s1) @@ (12320 :> s2)
  /\ define_ok = [ref \in Range(StrSliceRefs) |-> TRUE]
  /\ \E refs \in CodeRefChoices : code_refs = (4096 :> refs) @@ (4128 :> <<8200>>)
  /\ tag_types = <<>>
  /\ tags = <<>>
  /\ define_type_calls = 1
  /\ runs = 1
  /\ pre = Snapshot(type_registry, data_vars, tag_types, tags)
  /\ txn = "begun"
  /\ reanalysed = FALSE
  /\ pc = "annotate"
  /\ error = "none"
  /\ scan_i = Entry.scan_i
  /\ candidate_path = Entry.candidate_path
  /\ source_file_paths = Entry.source_file_paths
  /\ synth_i = Entry.synth_i
  /\ panic_locations \in LocationLists
  /\ ann_i = Entry.ann_i
  /\ define_calls = Entry.define_calls

NextAnnotate ==
  \/ AnnotateStep
  \/ AnnotateReturn

SpecAnnotate == InitAnnotate /\ [][NextAnnotate]_vars

(***************************************************************************)
(* The claims.                                                             *)
(***************************************************************************)
\* The statements of main after the call of line 186 has returned.
AfterAnnotate == {"commit", "update", "done"}

\* The annotator has returned or raised.
AnnotateEnded == pc \in AfterAnnotate \/ (pc = "annotate" /\ error # "none")

\* The tags and tag types this invocation has added.
NewTags == SubSeq(tags, Len(pre.tags) + 1, Len(tags))
NewTagTypes == SubSeq(tag_types, Len(pre.tag_types) + 1, Len(tag_types))

\* The text of a value, when it has one: decoded bytes, or text itself.
TextOf(value) ==
  IF value.kind = "bytes" THEN Utf8Decode(value.data)
  ELSE IF value.kind = "str" THEN Some(value.data)
  ELSE None

\* The text a location's file field resolves to in the view dvs, if any.
FileText(dvs, location) ==
  LET file_address == FileAddress(dvs[location.address]) IN
  IF file_address = None \/ dvs[file_address[1]].kind = "absent" THEN None
  ELSE TextOf(dvs[file_address[1]].value)

\* The file field of a location points to an address with no data variable.
Unresolved(dvs, location) ==
  LET file_address == FileAddress(dvs[location.address]) IN
  file_address # None /\ dvs[file_address[1]].kind = "absent"

RECURSIVE ExpectedTags(_, _)
\* One tag per code reference for every location whose file text resolves.
ExpectedTags(dvs, locations) ==
  IF locations = <<>> THEN <<>>
  ELSE LET text == FileText(dvs, Head(locations)) IN
       (IF text = None THEN <<>>
        ELSE TagsFor(Head(locations), text[1], code_refs[Head(locations).address]))
       \o ExpectedTags(dvs, Tail(locations))

RECURSIVE ExpectedTagTypes(_, _)
ExpectedTagTypes(dvs, locations) ==
  IF locations = <<>> THEN <<>>
  ELSE LET text == FileText(dvs, Head(locations)) IN
       (IF text = None THEN <<>> ELSE <<TagTypeName(text[1])>>)
       \o ExpectedTagTypes(dvs, Tail(locations))

\* The variable at a &str reference is a slice over a present byte or text
\* value that parses to a path with the suffix ".rs".
IsCandidatePath(dvs, win, ref) ==
  /\ dvs[ref].kind = "strslice"
  /\ dvs[ref].address # None
  /\ dvs[dvs[ref].address[1]].kind = "data"
  /\ TextOf(dvs[dvs[ref].address[1]].value) # None
  /\ IsSourceFilePath(ParsePath(win, TextOf(dvs[dvs[ref].address[1]].value)[1]))

\* A step of an invocation changes the model: a type, a data variable, a
\* tag type or a tag.
MutatesModel ==
  \/ type_registry' # type_registry
  \/ define_type_calls' # define_type_calls
  \/ data_vars' # data_vars
  \/ Len(define_calls') > Len(define_calls)
  \/ tag_types' # tag_types
  \/ tags' # tags

\* C1: every define_type, define_data_object, create_tag_type and add_tag
\* of an invocation happens after begin_transaction and before
\* commit_transaction, and commit_transaction is followed by
\* trigger_reanalysis.
C1_MutationsInsideTransaction ==
  [][/\ MutatesModel => (txn = "begun" /\ txn' = "begun")
     /\ (txn = "begun" /\ txn' = "committed") => pc' = "update"
     /\ (pc = "update" /\ pc' # pc) => reanalysed']_vars

\* C2: a DecodeError is never fatal: no invocation ends with the
\* UnicodeDecodeError of a candidate whose bytes are not valid UTF-8.
C2_DecodeErrorNeverFatal == error # "UnicodeDecodeError"

\* C3: when core::panic::Location is already registered, registering it
\* again makes no define_type call and leaves the type registry unchanged.
C3_RegistrationIdempotent ==
  [][(pc = "create_type" /\ pc' = "begin" /\ TypeExists(type_registry))
       => (define_type_calls' = define_type_calls /\ type_registry' = type_registry)]_vars

\* C4: an invocation that fails after begin_transaction leaves none of its
\* data objects, tag types and tags in the model (leaving aside the type,
\* which C1 is about).
C4_FailureRollsBack ==
  error # "none" =>
    /\ data_vars = pre.data_vars
    /\ tag_types = pre.tag_types
    /\ tags = pre.tags

\* C5: every define_data_object call of the synthesizer is made at an
\* address that held, when scanned, a string slice over a present byte or
\* text value that parses to a path with the extension ".rs".
C5_RecordsOnlyOverCandidatePaths ==
  \A i \in 1..Len(define_calls) :
    IsCandidatePath(pre.data_vars, windows, define_calls[i].address)

RECURSIVE CreatedOf(_, _)
\* The variables the host creates for the first n candidates, in their order.
CreatedOf(candidates, n) ==
  IF n = 0 THEN <<>>
  ELSE CreatedOf(candidates, n - 1)
       \o (IF define_ok[candidates[n].address]
           THEN <<[address |-> candidates[n].address,
                   name |-> PanicLocationName(candidates[n].name)]>>
           ELSE <<>>)

\* C6: the synthesizer does not raise; it attempts a creation for every
\* candidate, in order, also after a creation has failed, and returns
\* exactly the created records in candidate order.
C6_SynthesisSafety ==
  /\ ~(pc = "synth" /\ error # "none")
  /\ Len(define_calls) = synth_i - 1
  /\ synth_i - 1 <= Len(source_file_paths)
  /\ \A k \in 1..Len(define_calls) :
       /\ define_calls[k].address = source_file_paths[k].address
       /\ define_calls[k].name = PanicLocationName(source_file_paths[k].name)
  /\ panic_locations = CreatedOf(source_file_paths, synth_i - 1)
  /\ (pc \in {"annotate"} \cup AfterAnnotate /\ TypeExists(type_registry))
       => synth_i - 1 = Len(source_file_paths)

\* C6's case: a creation failed, a later one was still attempted and
\* succeeded, and the synthesizer has returned.
C6_Witness ==
  /\ pc = "annotate"
  /\ Len(define_calls) = 2
  /\ ~define_calls[1].created
  /\ define_calls[2].created
  /\ Len(panic_locations) = 1

\* C7: when a location of the list has an unresolved file reference, the
\* annotator still processes every other location of the list and ends
\* with exactly the tag types and tags of the locations that resolve.
C7_UnresolvedSkippedOthersAnnotated ==
  (AnnotateEnded /\ \E i \in 1..Len(panic_locations) : Unresolved(data_vars, panic_locations[i]))
    => /\ ann_i > Len(panic_locations)
       /\ NewTags = ExpectedTags(data_vars, panic_locations)
       /\ NewTagTypes = ExpectedTagTypes(data_vars, panic_locations)

\* C8: once the annotator has run, the tags it added are exactly one user
\* tag per code reference of every synthesized record whose file text
\* resolves, each at the code reference's address, with the tag type and
\* the payload built from that record's path, line and col.
C8_OneTagPerCodeReference ==
  AnnotateEnded => NewTags = ExpectedTags(data_vars, panic_locations)

\* C9: without an architecture and without the type, an invocation
\* registers nothing, defines nothing, tags nothing, and still ends with
\* commit_transaction and trigger_reanalysis.
C9_MissingPreconditionsNoOp ==
  (~arch /\ ~TypeExists(pre.type_registry)) =>
    /\ type_registry = pre.type_registry
    /\ define_calls = <<>>
    /\ panic_locations = <<>>
    /\ tag_types = pre.tag_types
    /\ tags = pre.tags
    /\ Ended => (pc = "done" /\ txn = "committed" /\ reanalysed)

\* C10: the model holds one tag type per distinct decoded path: no two tag
\* types have the same name.
C10_OneTagTypePerPath ==
  \A i, j \in 1..Len(tag_types) : i # j => tag_types[i] # tag_types[j]

(***************************************************************************)
(* What the code does guarantee where C7, C8 and C9 fail.                  *)
(***************************************************************************)
\* The pass of the annotator's loop over a location with an unresolved file
\* reference adds no tag type and no tag, does not raise, and goes on to
\* the next location (a property of SpecAnnotate).
UnresolvedLocationIsSkipped ==
  [][(Running("annotate") /\ ann_i <= Len(panic_locations)
        /\ Unresolved(data_vars, panic_locations[ann_i]))
       => (tags' = tags /\ tag_types' = tag_types /\ error' = "none" /\ ann_i' = ann_i + 1)]_vars

\* The tags an invocation has added are exactly one tag per code reference
\* of the locations its annotator has processed so far.
ProcessedLocationsAreTagged ==
  pc \in {"annotate"} \cup AfterAnnotate =>
    NewTags = ExpectedTags(data_vars, SubSeq(panic_locations, 1, ann_i - 1))

\* Without an architecture and without the type, an invocation registers
\* nothing, defines nothing and tags nothing, and raises only in the scanner.
MissingPreconditionsMutateNothing ==
  (~arch /\ ~TypeExists(pre.type_registry)) =>
    /\ type_registry = pre.type_registry
    /\ define_calls = <<>>
    /\ panic_locations = <<>>
    /\ tag_types = pre.tag_types
    /\ tags = pre.tags
    /\ error # "none" => pc = "scan"

\* The view of the end-to-end scenario: on a non-Windows platform, one
\* string slice at 0x1000 over the bytes "library/core/src/panic.rs", line
\* 42, col 9, and one code reference to it at 0x2000.
ScenarioView ==
  /\ arch
  /\ ~windows
  /\ runs = 1
  /\ define_ok[4096]
  /\ pre.data_vars[4096] = StrSlice(Some(12288), NameAt(4096))
  /\ pre.data_vars[12288] = StringData(BytesValue(PathLib))
  /\ pre.data_vars[4128] = Absent
  /\ code_refs[4096] = <<8192>>

\* The scenario ends with the type registered, a core::panic::Location at
\* 0x1000, one tag type named from the path and one user tag at 0x2000
\* whose payload ends in "line 42, col 9".
EndToEndScenario ==
  (ScenarioView /\ Ended) =>
    /\ pc = "done"
    /\ TypeExists(type_registry)
    /\ data_vars[4096].kind = "location"
    /\ tag_types = <<PathLib \o <<" - Rust Panic Location Source File Path">>>>
    /\ tags = <<[addr |-> 8192, user |-> TRUE,
                 tag_type_name |-> PathLib \o <<" - Rust Panic Location Source File Path">>,
                 data |-> PathLib \o <<": line ", "4", "2", ", col ", "9">>]>>

ScenarioReached == ScenarioView /\ pc = "done"

=============================================================================
